---- MODULE Spec2Model ----
(***************************************************************************)
(* The Dojo: allocation of offices and living spaces to fellows and staff. *)
(* The model follows src/src/models/*.py (domain), src/src/cli.py         *)
(* (DojoApp.reallocate_person, save_state, load_state) and                 *)
(* src/src/models/db/*.py (the SQLite store).                              *)
(*                                                                         *)
(* Python strings are sequences of one-character strings, so that lower(), *)
(* upper(), strip() and split() are computed character by character.       *)
(* Python's None / True / False and a missing attribute are sequences      *)
(* holding one multi-character marker, which no string can equal.          *)
(***************************************************************************)
EXTENDS Integers, Sequences, FiniteSets, TLC

\* ------------------------------------------------------------------ bounds
MaxPeople == 2
MaxRooms == 3
MaxBatch == 2
MaxExtra == 2
MaxIds == 7

\* --------------------------------------------------------- python values
None == <<"<None>">>
PyTrue == <<"<True>">>
PyFalse == <<"<False>">>
NoAttr == <<"<no attribute>">>

FELLOW == <<"F", "E", "L", "L", "O", "W">>
STAFF == <<"S", "T", "A", "F", "F">>

LowerLetters == <<"a", "b", "c", "d", "e", "f", "g", "h", "i", "j", "k", "l", "m",
                  "n", "o", "p", "q", "r", "s", "t", "u", "v", "w", "x", "y", "z">>
UpperLetters == <<"A", "B", "C", "D", "E", "F", "G", "H", "I", "J", "K", "L", "M",
                  "N", "O", "P", "Q", "R", "S", "T", "U", "V", "W", "X", "Y", "Z">>

\* the letters that lower() and upper() change, with what they become
ToLower == [c \in {UpperLetters[i] : i \in 1..26} |->
               LowerLetters[CHOOSE i \in 1..26 : UpperLetters[i] = c]]

ToUpper == [c \in {LowerLetters[i] : i \in 1..26} |->
               UpperLetters[CHOOSE i \in 1..26 : LowerLetters[i] = c]]

LowerChar(c) == IF c \in DOMAIN ToLower THEN ToLower[c] ELSE c

UpperChar(c) == IF c \in DOMAIN ToUpper THEN ToUpper[c] ELSE c

\* str.lower()
lower(s) == [i \in 1..Len(s) |-> LowerChar(s[i])]

\* str.upper()
upper(s) == [i \in 1..Len(s) |-> UpperChar(s[i])]

\* str.strip()
RECURSIVE strip(_)
strip(s) ==
    IF s = <<>> THEN <<>>
    ELSE IF Head(s) = " " THEN strip(Tail(s))
    ELSE IF s[Len(s)] = " " THEN strip(SubSeq(s, 1, Len(s) - 1))
    ELSE s

\* str.split(): the whitespace-separated words
RECURSIVE split(_)
split(s) ==
    IF s = <<>> THEN <<>>
    ELSE IF Head(s) = " " THEN split(Tail(s))
    ELSE LET stops == {i \in 1..Len(s) : s[i] = " "}
             n == IF stops = {} THEN Len(s)
                  ELSE (CHOOSE i \in stops : \A j \in stops : i <= j) - 1
         IN <<SubSeq(s, 1, n)>> \o split(SubSeq(s, n + 1, Len(s)))

\* truth value of an assignment field (None, False, True or a room name)
Truthy(v) == v # None /\ v # PyFalse /\ v # NoAttr /\ v # <<>>

\* ------------------------------------------------------------ the inputs
RoomNames == { <<" ">>, <<"a">>, <<"A">>, <<"b">>, <<"c">> }

RoomTypes == { "office", "living_space", "kitchen" }

RoomBatches == UNION { [1..n -> RoomNames] : n \in 1..MaxBatch }

PersonNames == { <<"a">> }

\* names with nothing in them for split() to find, next to a usual one
BlankNames == { <<>>, <<" ">> }

AnyNames == PersonNames \cup BlankNames

PersonTypes == { FELLOW, <<"s", "t", "a", "f", "f">>, <<"C", "O", "O", "K">> }

Accommodation == { <<"y">>, <<"N">> }

\* ------------------------------------------------------------- the state
VARIABLES offices, living_spaces, people, staff, fellows, db, call, ret

vars == <<offices, living_spaces, people, staff, fellows, db, call, ret>>

\* the Dojo object as one value
dojo == [offices |-> offices, living_spaces |-> living_spaces, people |-> people,
         staff |-> staff, fellows |-> fellows]

\* Dojo.__init__
Dojo == [offices |-> <<>>, living_spaces |-> <<>>, people |-> <<>>,
         staff |-> <<>>, fellows |-> <<>>]

\* what a call leaves behind: the Dojo, the value returned ("True", "False",
\* or "Error" for an exception) and the statement the call left through
Outcome(d, r, exit) == [dojo |-> d, ret |-> r, exit |-> exit]

\* ------------------------------------------------------------------ rooms
Office(name) ==
    [name |-> name, room_type |-> "office", capacity |-> 6, occupants |-> <<>>]

LivingSpace(name) ==
    [name |-> name, room_type |-> "living_space", capacity |-> 4, occupants |-> <<>>]

InSeq(x, s) == \E i \in 1..Len(s) : s[i] = x

\* is_full with > for >=
is_full_late(room) == Len(room.occupants) > room.capacity

is_full(room) == Len(room.occupants) >= room.capacity

available_space(room) == room.capacity - Len(room.occupants)

\* add_occupant making room for the newcomer
add_occupant_resizing(room, person_id) ==
    IF person_id = 0 THEN [room |-> room, ret |-> FALSE]
    ELSE IF InSeq(person_id, room.occupants) THEN [room |-> room, ret |-> TRUE]
    ELSE IF is_full(room) THEN [room |-> room, ret |-> FALSE]
    ELSE [room |-> [room EXCEPT !.occupants = Append(@, person_id), !.capacity = @ + 1],
          ret |-> TRUE]

\* add_occupant without the look at the occupants
add_occupant_again(room, person_id) ==
    IF person_id = 0 THEN [room |-> room, ret |-> FALSE]
    ELSE IF is_full(room) THEN [room |-> room, ret |-> FALSE]
    ELSE [room |-> [room EXCEPT !.occupants = Append(@, person_id)], ret |-> TRUE]

\* Room.add_occupant: the room afterwards and the value returned
add_occupant(room, person_id) ==
    IF person_id = 0 THEN [room |-> room, ret |-> FALSE]
    ELSE IF InSeq(person_id, room.occupants) THEN [room |-> room, ret |-> TRUE]
    ELSE IF is_full(room) THEN [room |-> room, ret |-> FALSE]
    ELSE [room |-> [room EXCEPT !.occupants = Append(@, person_id)], ret |-> TRUE]

\* ListRemove dropping the head of the list
ListRemove_head(s, x) == Tail(s)

\* list.remove(x): drop the first occurrence
ListRemove(s, x) ==
    LET i == CHOOSE k \in 1..Len(s) : s[k] = x /\ \A j \in 1..(k - 1) : s[j] # x
    IN SubSeq(s, 1, i - 1) \o SubSeq(s, i + 1, Len(s))

\* Room.remove_occupant: the room afterwards and the value returned
remove_occupant(room, person_id) ==
    IF person_id = 0 \/ room.occupants = <<>> THEN [room |-> room, ret |-> FALSE]
    ELSE IF InSeq(person_id, room.occupants)
         THEN [room |-> [room EXCEPT !.occupants = ListRemove(@, person_id)], ret |-> TRUE]
    ELSE [room |-> room, ret |-> FALSE]

\* ----------------------------------------------------------------- people
Fellow(name, wants_accommodation, person_id) ==
    [name |-> name, person_id |-> person_id, person_type |-> FELLOW,
     wants_accommodation |-> (upper(wants_accommodation) = <<"Y">>),
     office_allocated |-> None, living_space_allocated |-> None]

Staff(name, person_id) ==
    [name |-> name, person_id |-> person_id, person_type |-> STAFF,
     wants_accommodation |-> FALSE,
     office_allocated |-> None, living_space_allocated |-> NoAttr]

\* str(uuid.uuid4())[:8]: any 8-digit hexadecimal string, an id already in
\* use included.  Ids are only ever compared for equality, so the unused
\* ones are interchangeable and one of them stands for all.
UsedIds(ps) == {ps[i].person_id : i \in 1..Len(ps)}

FreshId(ps) == CHOOSE n \in 1..(Len(ps) + 1) : n \notin UsedIds(ps) /\
                   \A m \in 1..(n - 1) : m \in UsedIds(ps)

uuid4(ps) == UsedIds(ps) \cup {FreshId(ps)}

\* ------------------------------------------------------------ create_room
\* NameExists comparing the names as written
NameExists_exact(name, offs, lss) ==
    \E i \in 1..Len(offs \o lss) : (offs \o lss)[i].name = name

NameExists(name, offs, lss) ==
    \E i \in 1..Len(offs \o lss) : lower((offs \o lss)[i].name) = lower(name)

\* SkipName without the strip()
SkipName_empty(name) == name = <<>>

SkipName(name) == name = <<>> \/ strip(name) = <<>>

PyBool(b) == IF b THEN "True" ELSE "False"

\* the loop of Dojo.create_room over room_names; exit tells whether the
\* loop has skipped a name that exists
RECURSIVE CreateRooms(_, _, _, _, _)
CreateRooms(d, room_type, room_names, rooms_created, exit) ==
    IF room_names = <<>>
    THEN Outcome(d, PyBool(rooms_created), exit)
    ELSE LET name == Head(room_names)
             rest == Tail(room_names)
         IN IF SkipName(name) THEN CreateRooms(d, room_type, rest, rooms_created, exit)
            ELSE IF NameExists(name, d.offices, d.living_spaces)
                 THEN CreateRooms(d, room_type, rest, rooms_created, "existing name skipped")
            ELSE IF room_type = "office"
                 THEN CreateRooms([d EXCEPT !.offices = Append(@, Office(name))],
                                  room_type, rest, TRUE, exit)
            ELSE CreateRooms([d EXCEPT !.living_spaces = Append(@, LivingSpace(name))],
                             room_type, rest, TRUE, exit)

CreateRoom(d, room_type, room_names) ==
    IF room_type \notin {"office", "living_space"}
    THEN Outcome(d, "False", "invalid room type")
    ELSE CreateRooms(d, room_type, room_names, FALSE, "loop done")

\* ------------------------------------------------------------- add_person
\* the rooms of a list that are not full (the candidates of random.choice)
available(rooms) == {i \in 1..Len(rooms) : ~is_full(rooms[i])}

\* the outcomes of random.choice, 0 standing for "no room available"
Choices(rooms) == IF available(rooms) = {} THEN {0} ELSE available(rooms)

\* Dojo._allocate_office once random.choice has picked office o
allocate_office(d, idx, o) ==
    IF o = 0 THEN d
    ELSE [d EXCEPT !.offices[o] = add_occupant(@, d.people[idx].person_id).room,
                   !.people[idx].office_allocated = d.offices[o].name]

\* Dojo._allocate_living_space once random.choice has picked living space l
allocate_living_space(d, idx, l) ==
    IF l = 0 THEN d
    ELSE [d EXCEPT !.living_spaces[l] = add_occupant(@, d.people[idx].person_id).room,
                   !.people[idx].living_space_allocated = d.living_spaces[l].name]

\* Dojo._add_person_to_lists; fellows and staff hold references to the
\* objects of people, here their positions in people
\* add_person_to_lists without the look at person_type
add_person_to_lists_fellows(d, person) ==
    [d EXCEPT !.people = Append(@, person),
              !.fellows = Append(@, Len(d.people) + 1)]

add_person_to_lists(d, person) ==
    LET idx == Len(d.people) + 1
    IN [d EXCEPT !.people = Append(@, person),
                 !.fellows = IF person.person_type = FELLOW THEN Append(@, idx) ELSE @,
                 !.staff = IF person.person_type = FELLOW THEN @ ELSE Append(@, idx)]

\* StaffAccommodation comparing the answer as written
StaffAccommodation_exact(person_type, wants_accommodation) ==
    person_type = STAFF /\ wants_accommodation = <<"Y">>

\* a staff member asking for accommodation
StaffAccommodation(person_type, wants_accommodation) ==
    person_type = STAFF /\ upper(wants_accommodation) = <<"Y">>

\* Dojo.add_person; person_id is the outcome of uuid4, o and l those of the
\* two calls of random.choice
AddPerson(d, name, person_type_in, wants_accommodation, person_id, o, l) ==
    LET person_type == upper(person_type_in) IN
    IF person_type \notin {FELLOW, STAFF}
    THEN Outcome(d, "False", "invalid person type")
    ELSE IF StaffAccommodation(person_type, wants_accommodation)
    THEN Outcome(d, "False", "staff accommodation")
    ELSE LET person == IF person_type = FELLOW
                       THEN Fellow(name, wants_accommodation, person_id)
                       ELSE Staff(name, person_id)
             idx == Len(d.people) + 1
             d1 == add_person_to_lists(d, person)
             d2 == allocate_office(d1, idx, o)
         IN IF split(name) = <<>>
            \* name.split()[0] raises IndexError; the handler prints to
            \* sys.stderr, and dojo.py never imports sys: NameError
            THEN Outcome(d2, "Error", "raise")
            ELSE IF person_type = FELLOW /\ person.wants_accommodation
            THEN Outcome(allocate_living_space(d2, idx, l), "True", "added")
            ELSE Outcome(d2, "True", "added")

\* ------------------------------------------------------ reallocate_person
\* the least element of a set of positions, 0 when it is empty
First(S) == IF S = {} THEN 0 ELSE CHOOSE i \in S : \A j \in S : i <= j

FindPerson(ps, person_id) ==
    First({i \in 1..Len(ps) : ps[i].person_id = person_id})

\* FindRoom keeping the loop variable when no name matches
FindRoom_leaky(rooms, new_room_name) ==
    IF \E i \in 1..Len(rooms) : lower(rooms[i].name) = lower(new_room_name)
    THEN First({i \in 1..Len(rooms) : lower(rooms[i].name) = lower(new_room_name)})
    ELSE Len(rooms)

FindRoom(rooms, new_room_name) ==
    First({i \in 1..Len(rooms) : lower(rooms[i].name) = lower(new_room_name)})

Eligible(person) == person.person_type = FELLOW /\ person.wants_accommodation

\* TargetFull with > for >=
TargetFull_late(new_room) == Len(new_room.occupants) > new_room.capacity

TargetFull(new_room) == Len(new_room.occupants) >= new_room.capacity

CurrentRoom(rooms, person_id) ==
    First({i \in 1..Len(rooms) : InSeq(person_id, rooms[i].occupants)})

\* AlreadyThere refusing a person who is in no room of the kind
AlreadyThere_homeless(rooms, c, new_room) ==
    c = 0 \/ lower(rooms[c].name) = lower(new_room.name)

AlreadyThere(rooms, c, new_room) ==
    c # 0 /\ lower(rooms[c].name) = lower(new_room.name)

\* the allocation field of a person that goes with rooms of room_type
SetAllocated(person, room_type, v) ==
    IF room_type = "office" THEN [person EXCEPT !.office_allocated = v]
    ELSE IF room_type = "living_space" THEN [person EXCEPT !.living_space_allocated = v]
    ELSE person

\* the body of the try block: leave the current room c (if any), enter room t
Move(rooms, p, c, t, person_id) ==
    LET rooms1 == IF c # 0
                  THEN [rooms EXCEPT ![c].occupants = ListRemove(@, person_id)]
                  ELSE rooms
        p1 == IF c # 0 THEN SetAllocated(p, rooms[c].room_type, PyFalse) ELSE p
        rooms2 == [rooms1 EXCEPT ![t].occupants = Append(@, person_id)]
        p2 == IF rooms[t].room_type = "office"
              THEN [p1 EXCEPT !.office_allocated = PyTrue]
              ELSE [p1 EXCEPT !.living_space_allocated = PyTrue]
    IN [rooms |-> rooms2, person |-> p2]

\* DojoApp.reallocate_person
Reallocate(d, person_id, new_room_name) ==
    LET p == FindPerson(d.people, person_id)
        o == FindRoom(d.offices, new_room_name)
        l == IF o = 0 THEN FindRoom(d.living_spaces, new_room_name) ELSE 0
    IN IF p = 0 THEN Outcome(d, "False", "person not found")
       ELSE IF o = 0 /\ l # 0 /\ ~Eligible(d.people[p])
       THEN Outcome(d, "False", "not eligible")
       ELSE IF o = 0 /\ l = 0 THEN Outcome(d, "False", "room not found")
       ELSE LET rooms == IF o # 0 THEN d.offices ELSE d.living_spaces
                t == IF o # 0 THEN o ELSE l
            IN IF TargetFull(rooms[t]) THEN Outcome(d, "False", "full")
               ELSE LET c == CurrentRoom(rooms, person_id)
                    IN IF AlreadyThere(rooms, c, rooms[t])
                       THEN Outcome(d, "False", "already there")
                       ELSE LET m == Move(rooms, d.people[p], c, t, person_id)
                            IN Outcome([d EXCEPT
                                   !.offices = IF o # 0 THEN m.rooms ELSE @,
                                   !.living_spaces = IF o # 0 THEN @ ELSE m.rooms,
                                   !.people[p] = m.person],
                                 "True", "reallocated")

\* ------------------------------------------------- save_state, load_state
\* The SQLite file: whether it exists, and the rows of the tables rooms and
\* people in the order of their insertion.  The table fellows
\* (wants_accommodation) is written and never read back: PersonDB has no
\* polymorphic_on, so query(PersonDB) yields plain PersonDB objects.  The
\* association table behind RoomDB.occupants is never written.
\* A file is a database when it starts with the 16 bytes of the SQLite
\* header, and it has the tables once create_tables has run on it.
NoFile == [exists |-> FALSE, sqlite |-> FALSE, tables |-> FALSE,
           rooms |-> <<>>, people |-> <<>>]

\* a file that is not a database
Garbage == [NoFile EXCEPT !.exists = TRUE]

\* a database without the tables of the Dojo
Foreign == [NoFile EXCEPT !.exists = TRUE, !.sqlite = TRUE]

\* _is_valid_sqlite_db without the look at the header
is_valid_sqlite_db_any(file) == file.exists

\* _is_valid_sqlite_db
is_valid_sqlite_db(file) == file.exists /\ file.sqlite

\* room.name.lower().replace(' ', '_')
room_id(name) ==
    [i \in 1..Len(name) |-> IF name[i] = " " THEN "_" ELSE LowerChar(name[i])]

\* to_db_room storing the id where the name belongs
to_db_room_id_as_name(room) ==
    [id |-> room_id(room.name), name |-> room_id(room.name), type |-> room.room_type,
     capacity |-> IF room.room_type = "office" THEN 6 ELSE 4]

\* to_db_room: the row of OfficeDB / LivingSpaceDB
to_db_room(room) ==
    [id |-> room_id(room.name), name |-> room.name, type |-> room.room_type,
     capacity |-> IF room.room_type = "office" THEN 6 ELSE 4]

\* what a String column gives back for a value written to it: SQLite keeps
\* text as it is and turns the integer that True is bound as into '1'
Column(v) == IF v = PyTrue THEN <<"1">> ELSE v

\* to_db_person: the row of StaffDB / FellowDB; None is NULL
to_db_person(person) ==
    [id |-> person.person_id, name |-> person.name, type |-> person.person_type,
     wants_accommodation |-> person.wants_accommodation,
     office_id |-> IF Truthy(person.office_allocated)
                   THEN Column(person.office_allocated) ELSE None,
     living_space_id |-> IF Truthy(person.living_space_allocated)
                         THEN Column(person.living_space_allocated) ELSE None]

\* no two rows with the same primary key
UniqueKeys(rows) == \A i, j \in 1..Len(rows) : i # j => rows[i].id # rows[j].id

\* Database.create_tables: the file is created if need be, and the missing
\* tables with it
create_tables(file) == [file EXCEPT !.exists = TRUE, !.sqlite = TRUE, !.tables = TRUE]

\* Refill without the deletions
Refill_kept(old_rows, rows) == old_rows \o rows

\* the rows of a table once the transaction has deleted all of them and
\* inserted rows
Refill(old_rows, rows) == rows

\* Rollback keeping the deletions
Rollback_deleted(file) == [file EXCEPT !.rooms = <<>>, !.people = <<>>]

\* session.rollback(): the rows are those before the transaction
Rollback(file) == file

\* Converted writing the row id of a room back into its name
Converted_slugged(d) ==
    [d EXCEPT !.offices = [i \in 1..Len(@) |-> [@[i] EXCEPT !.name = room_id(@)]],
              !.living_spaces = [i \in 1..Len(@) |-> [@[i] EXCEPT !.name = room_id(@)]]]

\* the Dojo after to_db_room and to_db_person have gone over its rooms and
\* people: they build row objects and assign to no attribute of a room or
\* of a person
Converted(d) == d

\* DatabaseService.save_state on a writable path: the tables are emptied and
\* refilled in one transaction, which the commit rolls back on a repeated
\* primary key
SaveState(d, file) ==
    LET rooms == d.offices \o d.living_spaces
        room_rows == [i \in 1..Len(rooms) |-> to_db_room(rooms[i])]
        person_rows == [i \in 1..Len(d.people) |-> to_db_person(d.people[i])]
    IN IF file.exists /\ ~file.sqlite
       \* create_tables: "file is not a database"
       THEN [db |-> file, ret |-> "False", exit |-> "not a database", dojo |-> d]
       ELSE IF UniqueKeys(room_rows) /\ UniqueKeys(person_rows)
       THEN [db |-> [create_tables(file) EXCEPT !.rooms = Refill(@, room_rows),
                                                !.people = Refill(@, person_rows)],
             ret |-> "True", exit |-> "saved", dojo |-> Converted(d)]
       ELSE [db |-> Rollback(create_tables(file)), ret |-> "False", exit |-> "rollback",
             dojo |-> Converted(d)]

\* the loop of load_state over the rows of rooms, with to_domain_room
RECURSIVE LoadRooms(_, _, _)
LoadRooms(d, rows, loaded_rooms) ==
    IF rows = <<>> THEN d
    ELSE LET row == Head(rows)
             known == \E i \in 1..Len(d.offices \o d.living_spaces) :
                          (d.offices \o d.living_spaces)[i].name = row.name
         IN IF row.name \in loaded_rooms \/ known
            THEN LoadRooms(d, Tail(rows), loaded_rooms \cup {row.name})
            ELSE IF row.type = "office"
            THEN LoadRooms([d EXCEPT !.offices = Append(@, Office(row.name))],
                           Tail(rows), loaded_rooms \cup {row.name})
            ELSE LoadRooms([d EXCEPT !.living_spaces = Append(@, LivingSpace(row.name))],
                           Tail(rows), loaded_rooms \cup {row.name})

\* to_domain_person making a Fellow of every row
to_domain_person_fellow(row) ==
    [Fellow(row.name, <<"N">>, row.id) EXCEPT !.wants_accommodation = FALSE]

\* to_domain_person without the append to people
to_domain_person(row) ==
    LET person == IF row.type = STAFF THEN Staff(row.name, row.id)
                  ELSE [Fellow(row.name, <<"N">>, row.id) EXCEPT !.wants_accommodation = FALSE]
        p1 == IF Truthy(row.office_id)
              THEN [person EXCEPT !.office_allocated = row.office_id] ELSE person
    IN IF Truthy(row.living_space_id)
       THEN [p1 EXCEPT !.living_space_allocated = row.living_space_id] ELSE p1

\* the loop of load_state over the rows of people
RECURSIVE LoadPeople(_, _)
LoadPeople(d, rows) ==
    IF rows = <<>> THEN d
    ELSE IF FindPerson(d.people, Head(rows).id) # 0 THEN LoadPeople(d, Tail(rows))
    ELSE LoadPeople(add_person_to_lists(d, to_domain_person(Head(rows))), Tail(rows))

\* LoadState reading into the Dojo it is given
LoadState_keeping(d, file) ==
    IF ~is_valid_sqlite_db(file) \/ ~file.tables THEN Outcome(d, "False", "no file")
    ELSE Outcome(LoadPeople(LoadRooms(d, file.rooms, {}), file.people), "True", "loaded")

\* LoadState adding what it reads to what the Dojo holds
LoadState_adding(d, file) ==
    IF ~is_valid_sqlite_db(file) \/ ~file.tables THEN Outcome(d, "False", "no file")
    ELSE LET read == LoadPeople(LoadRooms(Dojo, file.rooms, {}), file.people)
         IN Outcome([offices |-> d.offices \o read.offices,
                     living_spaces |-> d.living_spaces \o read.living_spaces,
                     people |-> d.people \o read.people,
                     staff |-> d.staff \o read.staff,
                     fellows |-> d.fellows \o read.fellows], "True", "loaded")

\* DojoApp.load_state: the checks of the file, then self.dojo = Dojo() and
\* DatabaseService.load_state, whose first query fails without the tables
LoadState(d, file) ==
    IF ~file.exists THEN Outcome(d, "False", "no file")
    ELSE IF ~is_valid_sqlite_db(file) THEN Outcome(d, "False", "not a database")
    ELSE IF ~file.tables THEN Outcome(Dojo, "False", "no tables")
    ELSE Outcome(LoadPeople(LoadRooms(Dojo, file.rooms, {}), file.people), "True", "loaded")

\* ---------------------------------------------------------------- actions
\* the call op has left the Dojo, the return value and the exit of out
Becomes(op, out) ==
    /\ db' = db
    /\ offices' = out.dojo.offices
    /\ living_spaces' = out.dojo.living_spaces
    /\ people' = out.dojo.people
    /\ staff' = out.dojo.staff
    /\ fellows' = out.dojo.fellows
    /\ ret' = out.ret
    /\ call' = [op |-> op, exit |-> out.exit]

create_room(room_type, room_names) ==
    Becomes("create_room", CreateRoom(dojo, room_type, room_names))

\* add_person with uuid4 drawing the id from ids
add_person_ids(ids, name, person_type, wants_accommodation) ==
    \E person_id \in ids, o \in Choices(offices), l \in Choices(living_spaces) :
        Becomes("add_person",
                AddPerson(dojo, name, person_type, wants_accommodation, person_id, o, l))

add_person(name, person_type, wants_accommodation) ==
    add_person_ids(uuid4(people), name, person_type, wants_accommodation)

reallocate_person(person_id, new_room_name) ==
    Becomes("reallocate_person", Reallocate(dojo, person_id, new_room_name))

save_state ==
    LET out == SaveState(dojo, db)
    IN /\ db' = out.db
       /\ ret' = out.ret
       /\ call' = [op |-> "save_state", exit |-> out.exit]
       /\ offices' = out.dojo.offices
       /\ living_spaces' = out.dojo.living_spaces
       /\ people' = out.dojo.people
       /\ staff' = out.dojo.staff
       /\ fellows' = out.dojo.fellows

load_state ==
    LET out == LoadState(dojo, db)
    IN /\ offices' = out.dojo.offices
       /\ living_spaces' = out.dojo.living_spaces
       /\ people' = out.dojo.people
       /\ staff' = out.dojo.staff
       /\ fellows' = out.dojo.fellows
       /\ ret' = out.ret
       /\ call' = [op |-> "load_state", exit |-> out.exit]
       /\ db' = db

Init ==
    /\ offices = <<>>
    /\ living_spaces = <<>>
    /\ people = <<>>
    /\ staff = <<>>
    /\ fellows = <<>>
    /\ db = NoFile
    /\ call = [op |-> "init", exit |-> ""]
    /\ ret = "None"

Next ==
    \/ \E room_type \in RoomTypes, room_names \in RoomBatches :
           /\ Len(offices) + Len(living_spaces) + Len(room_names) <= MaxRooms
           /\ create_room(room_type, room_names)
    \/ \E name \in PersonNames, person_type \in PersonTypes, wants \in Accommodation :
           /\ Len(people) < MaxPeople
           /\ add_person(name, person_type, wants)
    \/ \E person_id \in uuid4(people), new_room_name \in RoomNames :
           reallocate_person(person_id, new_room_name)

Spec == Init /\ [][Next]_vars

\* The runs that only create rooms.
NextRooms ==
    \E room_type \in RoomTypes, room_names \in RoomBatches :
        /\ Len(offices) + Len(living_spaces) + Len(room_names) <= MaxRooms
        /\ create_room(room_type, room_names)

SpecRooms == Init /\ [][NextRooms]_vars

\* The runs of Spec in which uuid4 never draws an id twice.
NextFresh ==
    \/ \E room_type \in RoomTypes, room_names \in RoomBatches :
           /\ Len(offices) + Len(living_spaces) + Len(room_names) <= MaxRooms
           /\ create_room(room_type, room_names)
    \/ \E name \in PersonNames, person_type \in PersonTypes, wants \in Accommodation :
           /\ Len(people) < MaxPeople
           /\ add_person_ids({FreshId(people)}, name, person_type, wants)
    \/ \E person_id \in uuid4(people), new_room_name \in RoomNames :
           reallocate_person(person_id, new_room_name)

SpecFresh == Init /\ [][NextFresh]_vars

\* The runs in which people may come with a blank name; rooms are created
\* one at a time and uuid4 never draws an id twice.
NextNames ==
    \/ \E room_type \in RoomTypes, name \in { <<"a">>, <<"b">> } :
           /\ Len(offices) + Len(living_spaces) < MaxBatch
           /\ create_room(room_type, <<name>>)
    \/ \E name \in AnyNames, person_type \in PersonTypes, wants \in Accommodation :
           /\ Len(people) < MaxPeople
           /\ add_person_ids({FreshId(people)}, name, person_type, wants)
    \/ \E person_id \in uuid4(people), new_room_name \in { <<"a">>, <<"b">> } :
           reallocate_person(person_id, new_room_name)

SpecNames == Init /\ [][NextNames]_vars

\* The runs on one room, an office or a living space, with the methods of
\* Room called on it directly; the id 0 is the empty string.
RoomIds == 0..MaxIds

TheRoom == (offices \o living_spaces)[1]

InitRoom ==
    /\ \/ offices = <<Office(<<"a">>)>> /\ living_spaces = <<>>
       \/ offices = <<>> /\ living_spaces = <<LivingSpace(<<"a">>)>>
    /\ people = <<>>
    /\ staff = <<>>
    /\ fellows = <<>>
    /\ db = NoFile
    /\ call = [op |-> "init", exit |-> ""]
    /\ ret = "None"

\* a method of Room has left the room and the return value of out
RoomBecomes(op, out) ==
    /\ offices' = IF offices = <<>> THEN offices ELSE <<out.room>>
    /\ living_spaces' = IF offices = <<>> THEN <<out.room>> ELSE living_spaces
    /\ ret' = PyBool(out.ret)
    /\ call' = [op |-> op, exit |-> ""]
    /\ UNCHANGED <<people, staff, fellows, db>>

room_add_occupant(person_id) ==
    RoomBecomes("add_occupant", add_occupant(TheRoom, person_id))

room_remove_occupant(person_id) ==
    RoomBecomes("remove_occupant", remove_occupant(TheRoom, person_id))

NextRoom ==
    \/ \E person_id \in RoomIds : room_add_occupant(person_id)
    \/ \E person_id \in RoomIds : room_remove_occupant(person_id)

SpecRoom == InitRoom /\ [][NextRoom]_vars

\* The runs with the database: rooms are created one at a time, under names
\* of which two give the same room id.
StoreRoomNames == { <<"A">>, <<"a", " ", "b">>, <<"a", "_", "b">> }

NextStore ==
    \/ \E room_type \in {"office", "living_space"}, name \in StoreRoomNames :
           /\ Len(offices) + Len(living_spaces) < MaxBatch
           /\ create_room(room_type, <<name>>)
    \/ \E name \in PersonNames, person_type \in {FELLOW, STAFF}, wants \in Accommodation :
           /\ Len(people) < MaxPeople
           /\ add_person(name, person_type, wants)
    \/ \E person_id \in uuid4(people), new_room_name \in StoreRoomNames :
           reallocate_person(person_id, new_room_name)
    \/ save_state
    \/ load_state

SpecStore == Init /\ [][NextStore]_vars

\* ------------------------------------------------- rooms close to capacity
\* A full room takes more calls than the search from the empty Dojo covers.
\* The second specification starts where a run of create_room and
\* add_person calls has left the Dojo, and goes on with the same operations.

\* a choice of random.choice: the wanted candidate when it is one
Pick(rooms, want) ==
    IF want \in Choices(rooms) THEN want ELSE CHOOSE c \in Choices(rooms) : TRUE

\* add_person called once per entry <<person_type, wants_accommodation, o, l>>
RECURSIVE Admit(_, _)
Admit(d, script) ==
    IF script = <<>> THEN d
    ELSE LET s == Head(script)
         IN Admit(AddPerson(d, <<"a">>, s[1], s[2], FreshId(d.people),
                            Pick(d.offices, s[3]), Pick(d.living_spaces, s[4])).dojo,
                  Tail(script))

\* office a with 5 occupants, living space b with 3
NearlyFull1 ==
    Admit(CreateRoom(CreateRoom(Dojo, "office", <<<<"a">>>>).dojo,
                     "living_space", <<<<"b">>>>).dojo,
          << <<FELLOW, <<"Y">>, 1, 1>>, <<FELLOW, <<"Y">>, 1, 1>>,
             <<FELLOW, <<"Y">>, 1, 1>>, <<STAFF, <<"N">>, 1, 1>>,
             <<STAFF, <<"N">>, 1, 1>> >>)

\* living space a full with 4 occupants, living space b with 1, no office
NearlyFull2 ==
    Admit(CreateRoom(Dojo, "living_space", << <<"a">>, <<"b">> >>).dojo,
          << <<FELLOW, <<"Y">>, 0, 1>>, <<FELLOW, <<"Y">>, 0, 1>>,
             <<FELLOW, <<"Y">>, 0, 1>>, <<FELLOW, <<"Y">>, 0, 1>>,
             <<FELLOW, <<"Y">>, 0, 2>>, <<STAFF, <<"N">>, 0, 0>>,
             <<STAFF, <<"N">>, 0, 0>>, <<STAFF, <<"N">>, 0, 0>> >>)

InitFull ==
    /\ \E d \in {NearlyFull1, NearlyFull2} :
          /\ offices = d.offices
          /\ living_spaces = d.living_spaces
          /\ people = d.people
          /\ staff = d.staff
          /\ fellows = d.fellows
    /\ db = NoFile
    /\ call = [op |-> "init", exit |-> ""]
    /\ ret = "None"

NextFull ==
    \/ \E room_type \in RoomTypes, name \in RoomNames :
           /\ SkipName(name) \/ NameExists(name, offices, living_spaces)
           /\ create_room(room_type, <<name>>)
    \/ \E name \in PersonNames, person_type \in PersonTypes, wants \in Accommodation :
           /\ Len(people) < Len(NearlyFull1.people) + MaxExtra
           /\ add_person(name, person_type, wants)
    \/ \E person_id \in uuid4(people), new_room_name \in RoomNames :
           reallocate_person(person_id, new_room_name)

SpecFull == InitFull /\ [][NextFull]_vars

\* The runs that find a file on the path: none, a file that is not a
\* database, a database without the tables, or the store an earlier session
\* has saved.  OldDojo is what that session has saved: office A with a
\* fellow and a staff member, living space "a b" with the fellow.
OldDojo ==
    Admit(CreateRoom(CreateRoom(Dojo, "office", << <<"A">> >>).dojo,
                     "living_space", << <<"a", " ", "b">> >>).dojo,
          << <<FELLOW, <<"Y">>, 1, 1>>, <<STAFF, <<"N">>, 1, 0>> >>)

OldStore == SaveState(OldDojo, NoFile).db

InitFiles ==
    /\ offices = <<>>
    /\ living_spaces = <<>>
    /\ people = <<>>
    /\ staff = <<>>
    /\ fellows = <<>>
    /\ db \in {NoFile, Garbage, Foreign, OldStore}
    /\ call = [op |-> "init", exit |-> ""]
    /\ ret = "None"

NextFiles ==
    \/ \E room_type \in {"office", "living_space"}, name \in StoreRoomNames :
           /\ Len(offices) + Len(living_spaces) < MaxBatch
           /\ create_room(room_type, <<name>>)
    \/ \E name \in PersonNames, person_type \in {FELLOW, STAFF}, wants \in Accommodation :
           /\ Len(people) + 1 < MaxPeople
           /\ add_person(name, person_type, wants)
    \/ \E person_id \in uuid4(people), new_room_name \in StoreRoomNames :
           reallocate_person(person_id, new_room_name)
    \/ save_state
    \/ load_state

SpecFiles == InitFiles /\ [][NextFiles]_vars

\* ------------------------------------------------------------- the claims
Rooms == offices \o living_spaces

\* the ids and room names reallocate_person is called with
CallIds == uuid4(people)

Registered(person_id) == \E i \in 1..Len(people) : people[i].person_id = person_id

\* the rooms a name resolves to, ignoring case
Named(name) == {i \in 1..Len(Rooms) : lower(Rooms[i].name) = lower(name)}

\* the assignment field of a person for rooms of room_type
Assignment(person, room_type) ==
    IF room_type = "office" THEN person.office_allocated
    ELSE person.living_space_allocated

\* C1: every office has at most 6 occupants and every living space at most 4.
C1_Capacity ==
    /\ \A i \in 1..Len(offices) : Len(offices[i].occupants) <= 6
    /\ \A i \in 1..Len(living_spaces) : Len(living_spaces[i].occupants) <= 4

\* add_person has met a full office and a full living space and has
\* registered the person without either
C1_Witness ==
    /\ call.op = "add_person" /\ ret = "True"
    /\ \E i \in 1..Len(offices) : Len(offices[i].occupants) = 6
    /\ \E i \in 1..Len(living_spaces) : Len(living_spaces[i].occupants) = 4
    /\ people[Len(people)].wants_accommodation
    /\ people[Len(people)].office_allocated = None
    /\ people[Len(people)].living_space_allocated = None

\* C2: a person's id is in room R's occupants iff the person's assignment
\* field for R's kind holds R's name.
C2_Bidirectional ==
    \A p \in 1..Len(people), r \in 1..Len(Rooms) :
        InSeq(people[p].person_id, Rooms[r].occupants)
            <=> Assignment(people[p], Rooms[r].room_type) = Rooms[r].name

\* C3: no Staff person has a living-space assignment, and no Staff person's
\* id is among the occupants of a living space.
C3_StaffNoLivingSpace ==
    \A p \in 1..Len(people) :
        people[p].person_type = STAFF =>
            /\ ~Truthy(people[p].living_space_allocated)
            /\ \A l \in 1..Len(living_spaces) :
                   ~InSeq(people[p].person_id, living_spaces[l].occupants)

\* C4: a Fellow with wants_accommodation false has no living-space
\* assignment and is among the occupants of no living space.
C4_NoAccommodation ==
    \A p \in 1..Len(people) :
        (people[p].person_type = FELLOW /\ ~people[p].wants_accommodation) =>
            /\ ~Truthy(people[p].living_space_allocated)
            /\ \A l \in 1..Len(living_spaces) :
                   ~InSeq(people[p].person_id, living_spaces[l].occupants)

\* C5: no two registered rooms, offices and living spaces together, have
\* names that are equal ignoring case.
C5_UniqueRoomNames ==
    \A i, j \in 1..Len(Rooms) :
        i # j => lower(Rooms[i].name) # lower(Rooms[j].name)

\* create_room has skipped a name that was in use and has created another,
\* and a room whose name has an upper-case letter is registered
C5_Witness ==
    /\ call.op = "create_room" /\ call.exit = "existing name skipped" /\ ret = "True"
    /\ Len(Rooms) >= 2
    /\ \E i \in 1..Len(Rooms) : lower(Rooms[i].name) # Rooms[i].name

\* C6: no two registered persons share a person_id.
C6_UniqueIds ==
    \A i, j \in 1..Len(people) : i # j => people[i].person_id # people[j].person_id

\* C7: reallocate_person(p, B), for a registered p whose id is among the
\* occupants of a room A of B's kind, A other than B, with B eligible for p
\* and not full, returns True, takes p's id out of A and puts it into B, and
\* leaves every other room's occupants and every other person as they were.
C7_Moves ==
    \A person_id \in CallIds, name \in RoomNames, a \in 1..Len(Rooms) : \A b \in Named(name) :
        LET out == Reallocate(dojo, person_id, name)
            after == out.dojo.offices \o out.dojo.living_spaces
            p == FindPerson(people, person_id)
        IN ( /\ Registered(person_id)
             /\ a # b
             /\ Rooms[a].room_type = Rooms[b].room_type
             /\ InSeq(person_id, Rooms[a].occupants)
             /\ Len(Rooms[b].occupants) < Rooms[b].capacity
             /\ Rooms[b].room_type = "living_space" => Eligible(people[p]) )
           => /\ out.ret = "True"
              /\ ~InSeq(person_id, after[a].occupants)
              /\ InSeq(person_id, after[b].occupants)
              /\ \A r \in 1..Len(Rooms) : r \notin {a, b} => after[r] = Rooms[r]
              /\ \A q \in 1..Len(people) : q # p => out.dojo.people[q] = people[q]

\* C8: reallocate_person(p, R) with p's id among R's occupants returns False
\* and leaves the rooms and the people as they were.
C8_AlreadyThere ==
    \A person_id \in CallIds, name \in RoomNames : \A r \in Named(name) :
        (Registered(person_id) /\ InSeq(person_id, Rooms[r].occupants))
            => LET out == Reallocate(dojo, person_id, name)
               IN out.ret = "False" /\ out.dojo = dojo

\* C9: reallocate_person(p, R) with as many occupants in R as its capacity
\* returns False and leaves the rooms and the people as they were.
C9_TargetFull ==
    \A person_id \in CallIds, name \in RoomNames : \A r \in Named(name) :
        Len(Rooms[r].occupants) = Rooms[r].capacity
            => LET out == Reallocate(dojo, person_id, name)
               IN out.ret = "False" /\ out.dojo = dojo

\* reallocate_person has refused a person who is in another room of the
\* kind of a full room
C9_Witness ==
    /\ call.op = "reallocate_person" /\ call.exit = "full" /\ ret = "False"
    /\ \E r, a \in 1..Len(Rooms), p \in 1..Len(people) :
          /\ Len(Rooms[r].occupants) = Rooms[r].capacity
          /\ a # r /\ Rooms[a].room_type = Rooms[r].room_type
          /\ InSeq(people[p].person_id, Rooms[a].occupants)
          /\ ~InSeq(people[p].person_id, Rooms[r].occupants)

\* C10: reallocate_person with an id that is not registered, or with a name
\* that matches no room ignoring case, returns False and leaves the domain
\* as it was.
C10_NotFound ==
    \A person_id \in CallIds, name \in RoomNames :
        (~Registered(person_id) \/ Named(name) = {})
            => LET out == Reallocate(dojo, person_id, name)
               IN out.ret = "False" /\ out.dojo = dojo

\* reallocate_person has refused a registered person a name no room has,
\* with rooms registered
C10_Witness ==
    /\ call.op = "reallocate_person" /\ call.exit = "room not found" /\ ret = "False"
    /\ people # <<>> /\ Rooms # <<>>

\* C11: reallocate_person(p, L), L a living space and p Staff or a Fellow
\* with wants_accommodation false, returns False and leaves the rooms and
\* the people as they were.
C11_Ineligible ==
    \A person_id \in CallIds, name \in RoomNames :
        \A r \in Named(name), q \in 1..Len(people) :
            ( /\ Rooms[r].room_type = "living_space"
              /\ people[q].person_id = person_id
              /\ ~Eligible(people[q]) )
            => LET out == Reallocate(dojo, person_id, name)
               IN out.ret = "False" /\ out.dojo = dojo

\* the rooms of a list that hold person_id
Occupies(rooms, person_id) ==
    {i \in 1..Len(rooms) : InSeq(person_id, rooms[i].occupants)}

\* C12: once a person's id is among the occupants of a room of a kind, it
\* is among the occupants of exactly one room of that kind after every later
\* call of create_room, add_person or reallocate_person.
C12_Atomic ==
    [][\A person_id \in UsedIds(people) :
          /\ Occupies(offices, person_id) # {}
                => Cardinality(Occupies(offices', person_id)) = 1
          /\ Occupies(living_spaces, person_id) # {}
                => Cardinality(Occupies(living_spaces', person_id)) = 1]_vars

\* the occupant set of a room
OccupantSet(room) == {room.occupants[i] : i \in 1..Len(room.occupants)}

\* C13: when reallocate_person(p, B) has returned True and has taken p out
\* of a room A, reallocate_person(p, A) called next returns True and leaves
\* every room with the occupant set it had before the first call.
C13_ReverseMove ==
    \A person_id \in CallIds, name \in RoomNames, a \in 1..Len(Rooms) :
        LET out1 == Reallocate(dojo, person_id, name)
            after1 == out1.dojo.offices \o out1.dojo.living_spaces
            out2 == Reallocate(out1.dojo, person_id, Rooms[a].name)
            after2 == out2.dojo.offices \o out2.dojo.living_spaces
        IN (out1.ret = "True" /\ Len(after1[a].occupants) < Len(Rooms[a].occupants))
           => /\ out2.ret = "True"
              /\ \A r \in 1..Len(Rooms) : OccupantSet(after2[r]) = OccupantSet(Rooms[r])

\* the calls of add_person the code may meet in the current state: the
\* arguments and the outcomes of uuid4 and of the two calls of random.choice
AddPersonCalls ==
    [name : AnyNames, person_type : PersonTypes, wants : Accommodation,
     person_id : uuid4(people), o : Choices(offices), l : Choices(living_spaces)]

AddPersonOut(c) ==
    AddPerson(dojo, c.name, c.person_type, c.wants, c.person_id, c.o, c.l)

ValidKind(c) ==
    /\ upper(c.person_type) \in {FELLOW, STAFF}
    /\ ~(upper(c.person_type) = STAFF /\ upper(c.wants) = <<"Y">>)

\* C14: add_person returns False and leaves people, fellows, staff and the
\* rooms as they were when the kind is neither FELLOW nor STAFF, or is
\* STAFF with accommodation requested.
C14_Rejects ==
    \A c \in AddPersonCalls :
        ~ValidKind(c) => AddPersonOut(c).ret = "False" /\ AddPersonOut(c).dojo = dojo

\* add_person has refused a staff member who asked for accommodation, with
\* an office and a living space that had room
C14_Witness ==
    /\ call.op = "add_person" /\ call.exit = "staff accommodation" /\ ret = "False"
    /\ available(offices) # {} /\ available(living_spaces) # {}
    /\ people # <<>>

\* C15: add_person with a valid kind returns True and registers exactly one
\* new person; with no office registered the new person's office
\* assignment is empty.
C15_Registers ==
    \A c \in AddPersonCalls :
        ValidKind(c) =>
            LET out == AddPersonOut(c)
            IN /\ out.ret = "True"
               /\ Len(out.dojo.people) = Len(people) + 1
               /\ SubSeq(out.dojo.people, 1, Len(people)) = people
               /\ offices = <<>> => out.dojo.people[Len(people) + 1].office_allocated = None

\* the new person of a call of add_person that has registered one
NewPerson(out) == out.dojo.people[Len(people) + 1]

\* C16: after add_person has returned True the new person's office
\* assignment is empty iff no office had room at the call; otherwise the
\* person's id is among the occupants of exactly one office, one that had
\* room.  The same for living spaces and a Fellow who wants accommodation.
C16_Allocation ==
    \A c \in AddPersonCalls :
        LET out == AddPersonOut(c)
            new == NewPerson(out)
        IN out.ret = "True" =>
            /\ new.office_allocated = None <=> available(offices) = {}
            /\ available(offices) # {} =>
                  /\ Cardinality(Occupies(out.dojo.offices, new.person_id)) = 1
                  /\ Occupies(out.dojo.offices, new.person_id) \subseteq available(offices)
            /\ Eligible(new) =>
                  /\ new.living_space_allocated = None <=> available(living_spaces) = {}
                  /\ available(living_spaces) # {} =>
                        /\ Cardinality(Occupies(out.dojo.living_spaces, new.person_id)) = 1
                        /\ Occupies(out.dojo.living_spaces, new.person_id)
                              \subseteq available(living_spaces)

\* C17: a call of add_person that does not return True, whatever the name,
\* leaves the people and the rooms as they were.
C17_FailureChangesNothing ==
    \A c \in AddPersonCalls :
        AddPersonOut(c).ret # "True" => AddPersonOut(c).dojo = dojo

\* a name of nothing but spaces
Blank(name) == \A i \in 1..Len(name) : name[i] = " "

\* C18: create_room returns True iff it has registered at least one new
\* room; with a kind that is neither office nor living_space, or with
\* names that are all blank or in use ignoring case, it returns False and
\* leaves the rooms and the people as they were.
C18_ReturnsCreated ==
    \A room_type \in RoomTypes, room_names \in RoomBatches :
        LET out == CreateRoom(dojo, room_type, room_names)
            after == out.dojo.offices \o out.dojo.living_spaces
        IN /\ out.ret \in {"True", "False"}
           /\ out.ret = "True" <=> Len(after) > Len(Rooms)
           /\ \A r \in 1..Len(Rooms) : \E k \in 1..Len(after) : after[k] = Rooms[r]
           /\ ( \/ room_type \notin {"office", "living_space"}
                \/ \A i \in 1..Len(room_names) :
                       Blank(room_names[i]) \/ Named(room_names[i]) # {} )
              => out.ret = "False" /\ out.dojo = dojo

\* create_room has returned False for a valid kind and names that are all
\* in use or blank, at least one of them in use
C18_Witness ==
    /\ call.op = "create_room" /\ call.exit = "existing name skipped" /\ ret = "False"
    /\ Rooms # <<>>

\* the Dojo a new DojoApp holds after save_state here and load_state there
Reloaded == LoadState(Dojo, SaveState(dojo, db).db).dojo

\* C19: after a save that has returned True, load_state into a new Dojo
\* gives every person id the office assignment and the living-space
\* assignment it had in the Dojo that was saved.
C19_Assignments ==
    LET loaded == Reloaded.people
    IN SaveState(dojo, db).ret = "True" =>
        /\ UsedIds(loaded) = UsedIds(people)
        /\ \A p \in 1..Len(people), q \in 1..Len(loaded) :
               people[p].person_id = loaded[q].person_id =>
                   /\ loaded[q].office_allocated = people[p].office_allocated
                   /\ loaded[q].living_space_allocated = people[p].living_space_allocated

\* name, kind and capacity of the rooms of a list
Triples(rooms) ==
    {<<rooms[i].name, rooms[i].room_type, rooms[i].capacity>> : i \in 1..Len(rooms)}

\* C20: after a save that has returned True, load_state into a new Dojo
\* gives the same rooms by name, kind and capacity: the offices as offices
\* of capacity 6, the living spaces as living spaces of capacity 4, none
\* lost and none added.
C20_Rooms ==
    LET loaded == Reloaded
    IN SaveState(dojo, db).ret = "True" =>
        /\ Triples(loaded.offices) = Triples(offices)
        /\ Triples(loaded.living_spaces) = Triples(living_spaces)
        /\ Len(loaded.offices) = Len(offices)
        /\ Len(loaded.living_spaces) = Len(living_spaces)
        /\ \A i \in 1..Len(loaded.offices) :
               loaded.offices[i].room_type = "office" /\ loaded.offices[i].capacity = 6
        /\ \A i \in 1..Len(loaded.living_spaces) :
               /\ loaded.living_spaces[i].room_type = "living_space"
               /\ loaded.living_spaces[i].capacity = 4

\* load_state has filled the Dojo from a file saved with an office and a
\* living space, one of them with an upper-case name, and with people
C20_Witness ==
    /\ call.op = "load_state" /\ ret = "True"
    /\ db.exists /\ Len(db.rooms) = 2 /\ db.people # <<>>
    /\ offices # <<>> /\ living_spaces # <<>> /\ people # <<>>
    /\ \E i \in 1..Len(Rooms) : lower(Rooms[i].name) # Rooms[i].name
    /\ Triples(Rooms) = {<<db.rooms[i].name, db.rooms[i].type, db.rooms[i].capacity>> :
                            i \in 1..Len(db.rooms)}

\* id, name and kind of the persons of a list
PersonTriples(ps) == {<<ps[i].person_id, ps[i].name, ps[i].person_type>> : i \in 1..Len(ps)}

\* C21: after a save that has returned True, load_state into a new Dojo
\* gives the same persons by id, name and kind, every Fellow in fellows and
\* every Staff in staff.
C21_Persons ==
    LET loaded == Reloaded
    IN SaveState(dojo, db).ret = "True" =>
        /\ PersonTriples(loaded.people) = PersonTriples(people)
        /\ Len(loaded.people) = Len(people)
        /\ Len(loaded.fellows) + Len(loaded.staff) = Len(loaded.people)
        /\ \A i \in 1..Len(loaded.people) :
               /\ loaded.people[i].person_type = FELLOW
                      => InSeq(i, loaded.fellows) /\ ~InSeq(i, loaded.staff)
               /\ loaded.people[i].person_type = STAFF
                      => InSeq(i, loaded.staff) /\ ~InSeq(i, loaded.fellows)

\* load_state has filled the Dojo from a file saved with a Fellow and a
\* Staff member
C21_Witness ==
    /\ call.op = "load_state" /\ ret = "True"
    /\ PersonTriples(people) = {<<db.people[i].id, db.people[i].name, db.people[i].type>> :
                                   i \in 1..Len(db.people)}
    /\ \E i, j \in 1..Len(people) :
           people[i].person_type = FELLOW /\ people[j].person_type = STAFF

\* C22: after a save that has returned True, load_state into a new Dojo
\* gives every Fellow the wants_accommodation it was saved with.
C22_WantsAccommodation ==
    LET loaded == Reloaded.people
    IN SaveState(dojo, db).ret = "True" =>
        \A p \in 1..Len(people), q \in 1..Len(loaded) :
            (people[p].person_type = FELLOW /\ people[p].person_id = loaded[q].person_id)
                => loaded[q].wants_accommodation = people[p].wants_accommodation

\* C23: load_state on a path with no file, or with a file that does not
\* start with the SQLite header, returns False and leaves the rooms, their
\* occupants and the people as they were.
C23_BadFile ==
    (~db.exists \/ ~db.sqlite) =>
        LoadState(dojo, db).ret = "False" /\ LoadState(dojo, db).dojo = dojo

\* load_state has refused a file that is not a database, with rooms and
\* people in the Dojo
C23_Witness ==
    /\ call.op = "load_state" /\ call.exit = "not a database" /\ ret = "False"
    /\ db.exists /\ ~db.sqlite
    /\ Rooms # <<>> /\ people # <<>>

\* C24: a load_state that returns False, the one that fails after the
\* header has been accepted included, leaves the Dojo as it was.
C24_FailedLoad ==
    LoadState(dojo, db).ret = "False" => LoadState(dojo, db).dojo = dojo

\* the rows of a file
Rows(file) == <<file.rooms, file.people>>

\* C25: a save that returns False leaves the rows of the store as they
\* were before it: none of its deletions and none of its insertions stays.
C25_FailedSave ==
    SaveState(dojo, db).ret = "False" => Rows(SaveState(dojo, db).db) = Rows(db)

\* save_state has failed on a repeated key over a store that holds rows,
\* with rooms or people in the Dojo that the store does not have
C25_Witness ==
    /\ call.op = "save_state" /\ call.exit = "rollback" /\ ret = "False"
    /\ db.rooms # <<>> /\ db.people # <<>>
    /\ \/ Len(Rooms) # Len(db.rooms)
       \/ Len(people) # Len(db.people)

\* the rows that the rooms and the people of the Dojo make
RoomRowOf(room) ==
    [id |-> room_id(room.name), name |-> room.name, type |-> room.room_type,
     capacity |-> room.capacity]

PersonKeys(rows) == {<<rows[i].id, rows[i].name, rows[i].type>> : i \in 1..Len(rows)}

\* C26: after a save that has returned True the store has one rooms row
\* for each room of the Dojo and one people row for each person, and no
\* other row, whatever it held before; the same Dojo saved again gives the
\* same store.
C26_Snapshot ==
    LET out == SaveState(dojo, db)
    IN out.ret = "True" =>
        /\ Len(out.db.rooms) = Len(Rooms)
        /\ {out.db.rooms[i] : i \in 1..Len(Rooms)} = {RoomRowOf(Rooms[i]) : i \in 1..Len(Rooms)}
        /\ Len(out.db.people) = Len(people)
        /\ PersonKeys(out.db.people) = PersonTriples(people)
        /\ SaveState(dojo, out.db).ret = "True"
        /\ SaveState(dojo, out.db).db = out.db
        /\ \A file \in {NoFile, Foreign, OldStore} : SaveState(dojo, file).db = out.db

\* save_state has replaced a store that held the row of a room and the row
\* of a person which the Dojo does not have
C26_Witness ==
    /\ call.op = "save_state" /\ ret = "True"
    /\ \E i \in 1..Len(OldStore.rooms) :
           \A r \in 1..Len(Rooms) : Rooms[r].name # OldStore.rooms[i].name
    /\ \E i \in 1..Len(OldStore.people) : OldStore.people[i].id \notin UsedIds(people)
    /\ Rooms # <<>> /\ people # <<>>
    /\ Len(db.rooms) = Len(Rooms) /\ Len(db.people) = Len(people)

\* a sequence without a repeated element
NoRepeat(s) == \A i, j \in 1..Len(s) : i # j => s[i] # s[j]

\* C27: load_state called twice in a row on the same store leaves the Dojo
\* that one call leaves, with no room and no person twice in offices,
\* living_spaces, people, fellows or staff.
C27_LoadTwice ==
    LET once == LoadState(dojo, db)
        twice == LoadState(once.dojo, db)
    IN once.ret = "True" =>
        /\ twice.ret = "True"
        /\ twice.dojo = once.dojo
        /\ NoRepeat([i \in 1..Len(twice.dojo.offices) |-> twice.dojo.offices[i].name])
        /\ NoRepeat([i \in 1..Len(twice.dojo.living_spaces) |->
                        twice.dojo.living_spaces[i].name])
        /\ NoRepeat([i \in 1..Len(twice.dojo.people) |-> twice.dojo.people[i].person_id])
        /\ NoRepeat(twice.dojo.fellows)
        /\ NoRepeat(twice.dojo.staff)

\* load_state has filled the Dojo with rooms and people, and the store is
\* still the one it has read
C27_Witness ==
    /\ call.op = "load_state" /\ ret = "True"
    /\ offices # <<>> /\ living_spaces # <<>> /\ fellows # <<>> /\ staff # <<>>
    /\ dojo = LoadState(Dojo, db).dojo

\* C28: no two rooms of the Dojo get the same row id, so that a save never
\* fails on a repeated key of the table rooms.
C28_RoomIds ==
    /\ \A i, j \in 1..Len(Rooms) :
           i # j => room_id(Rooms[i].name) # room_id(Rooms[j].name)
    /\ NoRepeat([i \in 1..Len(people) |-> people[i].person_id])
           => SaveState(dojo, db).exit # "rollback"

\* C29: in the store that a successful save leaves, the office_id and the
\* living_space_id of a people row are null or the id of a rooms row of the
\* store, the row of the room that holds the person.
C29_ForeignKeys ==
    LET out == SaveState(dojo, db)
        RoomRow(key, type) ==
            \E i \in 1..Len(out.db.rooms) :
                /\ out.db.rooms[i].id = key
                /\ out.db.rooms[i].type = type
        Holds(key, person_id) ==
            \E r \in 1..Len(Rooms) :
                room_id(Rooms[r].name) = key /\ InSeq(person_id, Rooms[r].occupants)
    IN out.ret = "True" =>
        \A p \in 1..Len(out.db.people) :
            LET row == out.db.people[p]
            IN /\ row.office_id = None
                  \/ (RoomRow(row.office_id, "office") /\ Holds(row.office_id, row.id))
               /\ row.living_space_id = None
                  \/ ( /\ RoomRow(row.living_space_id, "living_space")
                       /\ Holds(row.living_space_id, row.id) )

\* the rooms of old are those at the head of new, by name, kind and capacity
RoomsKept(old, new) ==
    /\ Len(new) >= Len(old)
    /\ \A i \in 1..Len(old) :
           /\ new[i].name = old[i].name
           /\ new[i].room_type = old[i].room_type
           /\ new[i].capacity = old[i].capacity

\* the persons of old are those at the head of new, by id, name and kind
PeopleKept(old, new) ==
    /\ Len(new) >= Len(old)
    /\ \A i \in 1..Len(old) :
           /\ new[i].person_id = old[i].person_id
           /\ new[i].name = old[i].name
           /\ new[i].person_type = old[i].person_type

\* C30: a call of create_room, add_person or reallocate_person removes no
\* room and no person, and changes no room's kind or capacity.
C30_OnlyGrow ==
    [][ /\ RoomsKept(offices, offices')
        /\ RoomsKept(living_spaces, living_spaces')
        /\ PeopleKept(people, people') ]_vars

\* reallocate_person has moved a person, with three rooms and two people
\* registered
C30_Witness ==
    /\ call.op = "reallocate_person" /\ ret = "True"
    /\ Len(Rooms) = MaxRooms /\ Len(people) = MaxPeople

Without(s, k) == SubSeq(s, 1, k - 1) \o SubSeq(s, k + 1, Len(s))

\* C32: remove_occupant(id) returns False and leaves the occupants as they
\* are when id is not among them; otherwise it returns True and takes id
\* out, the others staying in place; add_occupant(id) and then
\* remove_occupant(id) on a room without id give the occupants back.
C32_RemoveOccupant ==
    \A person_id \in RoomIds :
        LET out == remove_occupant(TheRoom, person_id)
            present == InSeq(person_id, TheRoom.occupants)
            back == remove_occupant(add_occupant(TheRoom, person_id).room, person_id)
        IN /\ ~present => ~out.ret /\ out.room = TheRoom
           /\ present =>
                  /\ out.ret
                  /\ ~InSeq(person_id, out.room.occupants)
                  /\ \E k \in 1..Len(TheRoom.occupants) :
                         /\ TheRoom.occupants[k] = person_id
                         /\ out.room = [TheRoom EXCEPT !.occupants = Without(@, k)]
           /\ ~present => back.room = TheRoom

\* remove_occupant has taken an occupant out of the middle of a room
C32_Witness ==
    /\ call.op = "remove_occupant" /\ ret = "True"
    /\ Len(TheRoom.occupants) >= 2
    /\ \E i, j \in 1..Len(TheRoom.occupants) : i < j /\ TheRoom.occupants[i] > TheRoom.occupants[j]

\* C33: no room's occupant list holds the same id twice, in every state
\* reached by create_room, add_person and reallocate_person.
C33_NoRepeatedOccupant ==
    \A r \in 1..Len(Rooms) : NoRepeat(Rooms[r].occupants)

\* the rooms of the kind of room
SameKind(room) == IF room.room_type = "office" THEN offices ELSE living_spaces

C37_OneRoomOfAKind ==
    \A person_id \in UsedIds(people) :
        /\ Cardinality(Occupies(offices, person_id)) <= 1
        /\ Cardinality(Occupies(living_spaces, person_id)) <= 1

\* C34: after a save that has returned True, load_state into a new Dojo
\* gives a Dojo in which every person with an office (living-space)
\* assignment is among the occupants of the office (living space) of that
\* name, and in which every room has the occupant set it had when saved.
C34_LoadedOccupants ==
    LET loaded == Reloaded
        after == loaded.offices \o loaded.living_spaces
    IN SaveState(dojo, db).ret = "True" =>
        /\ \A q \in 1..Len(loaded.people) :
               /\ Truthy(loaded.people[q].office_allocated) =>
                      \E i \in 1..Len(loaded.offices) :
                          /\ loaded.offices[i].name = loaded.people[q].office_allocated
                          /\ InSeq(loaded.people[q].person_id, loaded.offices[i].occupants)
               /\ Truthy(loaded.people[q].living_space_allocated) =>
                      \E i \in 1..Len(loaded.living_spaces) :
                          /\ loaded.living_spaces[i].name = loaded.people[q].living_space_allocated
                          /\ InSeq(loaded.people[q].person_id, loaded.living_spaces[i].occupants)
        /\ \A i \in 1..Len(Rooms), j \in 1..Len(after) :
               after[j].name = Rooms[i].name => OccupantSet(after[j]) = OccupantSet(Rooms[i])

\* name, kind and capacity of the rows of the table rooms
RowTriples(rows) == {<<rows[i].name, rows[i].type, rows[i].capacity>> : i \in 1..Len(rows)}

\* id, name and kind of the rows of the table people
PersonRowTriples(rows) == {<<rows[i].id, rows[i].name, rows[i].type>> : i \in 1..Len(rows)}

\* C35: a load_state that returns True on a Dojo that holds rooms and
\* people leaves the rooms and the people of the store, one for each row,
\* and nothing of what the Dojo held before: the Dojo is the one a load
\* into a new Dojo gives.
C35_Replaces ==
    LET out == LoadState(dojo, db)
        after == out.dojo.offices \o out.dojo.living_spaces
    IN out.ret = "True" =>
        /\ out.dojo = LoadState(Dojo, db).dojo
        /\ Triples(after) = RowTriples(db.rooms)
        /\ Len(after) = Len(db.rooms)
        /\ PersonTriples(out.dojo.people) = PersonRowTriples(db.people)
        /\ Len(out.dojo.people) = Len(db.people)

\* the Dojo holds a room and a person that the store does not have, and
\* load_state on it returns True and leaves neither of them
C35_Witness ==
    LET out == LoadState(dojo, db)
        after == out.dojo.offices \o out.dojo.living_spaces
    IN /\ out.ret = "True" /\ out.exit = "loaded"
       /\ db.rooms # <<>> /\ db.people # <<>>
       /\ \E i \in 1..Len(Rooms) :
              /\ \A j \in 1..Len(db.rooms) : db.rooms[j].name # Rooms[i].name
              /\ \A j \in 1..Len(after) : after[j].name # Rooms[i].name
       /\ \E q \in 1..Len(people) :
              /\ \A j \in 1..Len(db.people) : db.people[j].id # people[q].person_id
              /\ \A j \in 1..Len(out.dojo.people) :
                     out.dojo.people[j].person_id # people[q].person_id

\* C38: fellows and staff partition people: every registered person is in
\* fellows and not in staff when a Fellow, in staff and not in fellows when
\* Staff, once, and neither list holds anyone who is not in people; in
\* every state reached by add_person and by load_state.
C38_Partition ==
    /\ \A i \in 1..Len(people) :
           IF people[i].person_type = FELLOW
           THEN InSeq(i, fellows) /\ ~InSeq(i, staff)
           ELSE people[i].person_type = STAFF /\ InSeq(i, staff) /\ ~InSeq(i, fellows)
    /\ \A k \in 1..Len(fellows) : fellows[k] \in 1..Len(people)
    /\ \A k \in 1..Len(staff) : staff[k] \in 1..Len(people)
    /\ NoRepeat(fellows) /\ NoRepeat(staff)

\* add_person has registered a person of the other kind next to a person
\* that load_state has read: her office assignment names an office, and
\* the office has no occupant
C38_Witness ==
    /\ call.op = "add_person" /\ ret = "True"
    /\ Len(people) = 2 /\ Len(db.people) = 1
    /\ people[1].person_id = db.people[1].id
    /\ people[1].person_type # people[2].person_type
    /\ \E i \in 1..Len(offices) :
           /\ offices[i].name = people[1].office_allocated
           /\ offices[i].occupants = <<>>

\* C39: save_state leaves the Dojo as it was, whether it returns True or
\* False: the rooms, their occupants, the people and their assignments,
\* and the lists of fellows and staff.
C39_SaveFrame ==
    [][call'.op = "save_state" =>
          <<offices, living_spaces, people, staff, fellows>>'
              = <<offices, living_spaces, people, staff, fellows>>]_vars

\* save_state has written a Dojo with an office named in upper case, its
\* occupant and the occupant's assignment, to a store other than the old one
C39_Witness ==
    /\ call.op = "save_state" /\ call.exit = "saved"
    /\ \E i \in 1..Len(offices) :
           /\ offices[i].name # lower(offices[i].name)
           /\ offices[i].occupants # <<>>
           /\ \E q \in 1..Len(people) : people[q].office_allocated = offices[i].name
    /\ Rows(db) # Rows(OldStore)

====
